---- MODULE Spec2Model ----
(***************************************************************************)
(* Model of service.py, the SharePoint gateway: the startup check and the  *)
(* three routes.  POST /send-to-list carries a batch of entities; the      *)
(* handler authenticates once, then walks the batch in order and, per      *)
(* entity, skips it, or probes the remote item by ID and issues one        *)
(* create, update or delete call.  GET /get-from-list and /get-site-users  *)
(* authenticate, fetch one collection and stream it as a JSON array.       *)
(* Every remote round trip is a step of its own: the call is appended to   *)
(* the log `calls` when it is issued and its result is filled in when the  *)
(* remote store answers.                                                   *)
(***************************************************************************)
EXTENDS Integers, Sequences, FiniteSets, TLC

VARIABLES
    PROCESS_DELETED,  \* deployment flag, read once from the environment
    pc,               \* position of the handler
    entities,         \* the batch of the request being handled
    idx,              \* 1-based position of the entity under the for loop
    token,            \* outcome of acquire_token_for_user ("none" before it)
    existing_item,    \* the local existing_item of the current entity
    calls,            \* remote calls issued by the current request, in order
    error,            \* the exception that ended the request ("none" if none)
    response,         \* the HTTP response of the request
    env,              \* SP_URL, SP_USERNAME, SP_PASSWORD of the environment
    proc,             \* the process: "starting", "listening" or "exited"
    LIST_SIZE,        \* page-size cap, read once from the environment
    route,            \* the route of the request being handled
    req_list_name,    \* path parameter of /get-from-list
    remote,           \* the collection as the remote store holds it
    ctx,              \* the ClientContext of the request (0: none built)
    auths,            \* acquire_token_for_user calls made by the request
    collection,       \* the local items / user_col of a reader
    index,            \* position of the generator of a reader
    stream            \* chunks the generator has yielded

vars == <<PROCESS_DELETED, pc, entities, idx, token, existing_item, calls,
          error, response, env, proc, LIST_SIZE, route, req_list_name, remote,
          ctx, auths, collection, index, stream>>

\* What no handler writes, and what only the readers write.
config == <<PROCESS_DELETED, env, proc, LIST_SIZE>>
reader == <<req_list_name, remote, collection, index, stream>>

----------------------------------------------------------------------------
(* Bounds of the model.                                                    *)

MaxBatch == 2
MaxListSize == 2
MaxItems == 3

----------------------------------------------------------------------------
(* JSON values.  Every value is a record of one shape, tagged by t:        *)
(* "null", "bool" (b), "int" (n), "str" (s), "list" (l, a sequence of      *)
(* strings) and "dict" (s, the value of its single 'type' member).         *)

JVal(t, b, n, s, l) == [t |-> t, b |-> b, n |-> n, s |-> s, l |-> l]
None == JVal("null", FALSE, 0, "", <<>>)
JBool(b) == JVal("bool", b, 0, "", <<>>)
JInt(n) == JVal("int", FALSE, n, "", <<>>)
JStr(s) == JVal("str", FALSE, 0, s, <<>>)
JList(l) == JVal("list", FALSE, 0, "", l)
TypeDict(s) == JVal("dict", FALSE, 0, s, <<>>)

\* Configured names of the control fields.
LIST_NAME == "ListName"
LIST_ITEM_NAME == "ListItemEntityTypeFullName"

\* entity.get(key): the value, or None when the field is absent.
Get(entity, key) == IF key \in DOMAIN entity THEN entity[key] ELSE None

\* bool(v) of Python.
Truthy(v) ==
    CASE v.t = "null" -> FALSE
      [] v.t = "bool" -> v.b
      [] v.t = "int"  -> v.n # 0
      [] v.t = "str"  -> v.s # ""
      [] v.t = "list" -> v.l # <<>>
      [] OTHER        -> TRUE

Digit(d) ==
    CASE d = 0 -> "0" [] d = 1 -> "1" [] d = 2 -> "2" [] d = 3 -> "3"
      [] d = 4 -> "4" [] d = 5 -> "5" [] d = 6 -> "6" [] d = 7 -> "7"
      [] d = 8 -> "8" [] OTHER -> "9"

RECURSIVE Decimal(_)
Decimal(n) == IF n < 10 THEN Digit(n) ELSE Decimal(n \div 10) \o Digit(n % 10)

RECURSIVE JoinRepr(_)
JoinRepr(l) ==
    IF l = <<>> THEN ""
    ELSE "'" \o Head(l) \o "'"
         \o (IF Len(l) > 1 THEN ", " ELSE "") \o JoinRepr(Tail(l))

\* str(v) of Python, as a JSON string value.
Str(v) ==
    CASE v.t = "null" -> JStr("None")
      [] v.t = "bool" -> JStr(IF v.b THEN "True" ELSE "False")
      [] v.t = "int"  -> JStr(IF v.n < 0 THEN "-" \o Decimal(-v.n) ELSE Decimal(v.n))
      [] v.t = "str"  -> v
      [] v.t = "list" -> JStr("[" \o JoinRepr(v.l) \o "]")
      [] OTHER        -> JStr("{'type': '" \o v.s \o "'}")

----------------------------------------------------------------------------
(* The request bodies the model submits.  An entity is a function from its *)
(* field names to JSON values; an absent field is not in its domain.       *)

Absent == JVal("absent", FALSE, 0, "", <<>>)
Opt(key, v) == IF v = Absent THEN <<>> ELSE key :> v

Entity(deleted, id, list_name, type_name, keys, ID, should_delete, count) ==
    Opt("_deleted", deleted) @@ Opt("_id", id) @@ Opt(LIST_NAME, list_name)
    @@ Opt(LIST_ITEM_NAME, type_name) @@ Opt("Keys", keys) @@ Opt("ID", ID)
    @@ Opt("SHOULD_DELETE", should_delete) @@ Opt("Count", count)
    @@ ("Title" :> JStr("A"))

\* Type discriminator and projection.
Shapes ==
    {Absent, JStr("SP.Data.TasksListItem")}
    \X {JList(<<"Title">>), JList(<<"Count", "Title">>)}

FullShape == <<JStr("SP.Data.TasksListItem"), JList(<<"Count", "Title">>)>>

\* ID and SHOULD_DELETE of the entities that reach the create/update/delete
\* decision.
Decisions ==
    ({Absent, JInt(7)} \X {Absent, JBool(TRUE), JBool(FALSE), JStr("true")})
    \cup {<<JInt(0), JBool(TRUE)>>}

\* Every decision with the full shape; every other shape with the decisions
\* that send properties (a create without ID, an update or create with ID).
ShapedDecisions ==
    ({FullShape} \X Decisions)
    \cup ((Shapes \ {FullShape}) \X {<<Absent, Absent>>, <<JInt(7), Absent>>})

DecisionEntities ==
    { Entity(JBool(FALSE), JStr("e1"), JStr("Tasks"), sd[1][1], sd[1][2],
             sd[2][1], sd[2][2], JInt(3)) : sd \in ShapedDecisions }

\* Variations of the soft-delete marker and of the _id the skip branch logs.
DeletedEntities ==
    { Entity(del, id, JStr("Tasks"), Absent, JList(<<"Title">>), ID, Absent,
             JInt(3)) :
        del \in {Absent, JBool(TRUE)}, id \in {Absent, JStr("e1")},
        ID \in {Absent} }
    \cup { Entity(JBool(TRUE), JStr("e1"), JStr("Tasks"), Absent,
                  JList(<<"Title">>), JInt(7), JBool(TRUE), JInt(3)) }

\* Entities whose projection cannot be built.
MalformedEntities ==
    { Entity(JBool(FALSE), JStr("e1"), Absent, Absent, JList(<<"Title">>),
             JInt(7), Absent, JInt(3)),
      Entity(JBool(FALSE), JStr("e1"), JStr("Tasks"), Absent, Absent,
             JInt(7), Absent, JInt(3)),
      Entity(JBool(FALSE), JStr("e1"), JStr("Tasks"), Absent,
             JList(<<"Count", "Title">>), JInt(7), Absent, Absent),
      Entity(JBool(TRUE), JStr("e1"), JStr("Tasks"), Absent, Absent,
             Absent, Absent, JInt(3)) }

Entities == DecisionEntities \cup DeletedEntities \cup MalformedEntities

Batches == UNION { [1..n -> Entities] : n \in 0..MaxBatch }

\* Answers of the remote store to an item lookup, and to any other call.
ProbeOutcomes == {"exists", "not_found", "argument_exception", "error"}
CallOutcomes == {"ok", "fail"}

----------------------------------------------------------------------------
(* post_entities, piece by piece.                                          *)

Range(l) == { l[i] : i \in 1..Len(l) }

\* Variant of the test below: the token is not looked at.
HasToken_Always(tok) == TRUE

\* if ctx_auth.provider.token
HasToken(tok) == tok = "valid"

\* if entity['_deleted'] and not PROCESS_DELETED
SkipDeleted(entity, process_deleted) ==
    Truthy(entity["_deleted"]) /\ ~process_deleted

\* The subscripts of the loop head that sit outside the try block: the
\* _deleted test, the _id of the debug message, the list name.
LoopKeyError(entity, process_deleted) ==
    \/ "_deleted" \notin DOMAIN entity
    \/ SkipDeleted(entity, process_deleted) /\ "_id" \notin DOMAIN entity
    \/ ~SkipDeleted(entity, process_deleted) /\ LIST_NAME \notin DOMAIN entity

keys_to_send(entity) == entity["Keys"].l

\* Variant of the test below: the listed fields are not read before the
\* first remote call.
ProjectionError_KeysOnly(entity) == "Keys" \notin DOMAIN entity

\* entity['Keys'] and entity[key] raise KeyError inside the try block.
ProjectionError(entity) ==
    \/ "Keys" \notin DOMAIN entity
    \/ \E key \in Range(keys_to_send(entity)) : key \notin DOMAIN entity

item_properties_metadata(entity) ==
    IF Get(entity, LIST_ITEM_NAME) = None THEN <<>>
    ELSE "__metadata" :> TypeDict(Get(entity, LIST_ITEM_NAME).s)

\* Variant of the projection below: the values are sent as they came.
values_to_send_Raw(entity) ==
    [key \in Range(keys_to_send(entity)) |-> entity[key]]

values_to_send(entity) ==
    [key \in Range(keys_to_send(entity)) |-> Str(entity[key])]

\* {**item_properties_metadata, **values_to_send}: the later mapping wins.
item_properties(entity) ==
    values_to_send(entity) @@ item_properties_metadata(entity)

\* if entity.get('ID')
HasID(entity) == Truthy(Get(entity, "ID"))

\* Variants of the test below: the message comparison dropped; a bare except.
LookupMeansAbsent_CodeOnly(outcome) == outcome = "argument_exception"
LookupMeansAbsent_Any(outcome) == outcome # "exists"

\* The lookup exceptions the handler takes as "no existing item".
LookupMeansAbsent(outcome) ==
    outcome \in {"argument_exception", "not_found"}

\* Variant of the test below: SHOULD_DELETE is True.
ShouldDelete_IsTrue(entity) == Get(entity, "SHOULD_DELETE") = JBool(TRUE)

\* entity.get('SHOULD_DELETE') is not None and bool(entity.get('SHOULD_DELETE'))
ShouldDelete(entity) ==
    Get(entity, "SHOULD_DELETE") # None /\ Truthy(Get(entity, "SHOULD_DELETE"))

\* Variant of the test below: the status of the response is not looked at.
RaisesForStatus_Never(outcome) == FALSE

\* execute_query() raising, or response.raise_for_status() raising.
RaisesForStatus(outcome) == outcome # "ok"

\* Variant of the context below: a context of its own for every entity.
RequestContext_PerEntity == ctx + idx

\* The ctx every call of the request is made with.
RequestContext == ctx

\* A remote call as it leaves the service; result is filled in on return.
Call(kind, i, list_title, item_id, properties) ==
    [kind |-> kind, ent |-> i, list |-> list_title, id |-> item_id,
     props |-> properties, result |-> "pending", session |-> RequestContext]

get_item_by_id(i, entity) ==
    Call("probe", i, entity[LIST_NAME].s, Get(entity, "ID"), <<>>)

add_item(i, entity) ==
    Call("create", i, entity[LIST_NAME].s, None, item_properties(entity))

\* Variant of the update below: the create mapping is sent.
update_list_item_ItemProperties(i, entity) ==
    Call("update", i, entity[LIST_NAME].s, Get(entity, "ID"),
         item_properties(entity))

update_list_item(i, entity) ==
    Call("update", i, entity[LIST_NAME].s, Get(entity, "ID"),
         values_to_send(entity))

delete_list_item(i, entity) ==
    Call("delete", i, entity[LIST_NAME].s, Get(entity, "ID"), <<>>)

\* Variant of the decision below: SHOULD_DELETE is looked at first.
Reconcile_DeleteFirst(i, entity, exists) ==
    IF ShouldDelete(entity) THEN delete_list_item(i, entity)
    ELSE IF ~exists THEN add_item(i, entity)
    ELSE update_list_item(i, entity)

\* The call issued once the lookup has settled existing_item.
Reconcile(i, entity, exists) ==
    IF ~exists THEN add_item(i, entity)
    ELSE IF ShouldDelete(entity) THEN delete_list_item(i, entity)
    ELSE update_list_item(i, entity)

NoResponse == [status |-> 0, body |-> ""]
Success == [status |-> 200, body |-> "{'status': 'success'}"]
\* What the framework answers for an exception the view lets escape.
InternalServerError == [status |-> 500, body |-> "Internal Server Error"]

Returned(outcome) ==
    [calls EXCEPT ![Len(calls)].result = outcome]

\* An exception leaves post_entities and the view.
Raise(exception) ==
    /\ pc' = "done"
    /\ error' = exception
    /\ response' = InternalServerError

----------------------------------------------------------------------------
\* Variant of the test below: only the URL is required.
ConfigMissing_UrlOnly(e) == ~Truthy(e.URL)

\* if not URL or not USERNAME or not PASSWORD
ConfigMissing(e) ==
    ~Truthy(e.URL) \/ ~Truthy(e.USERNAME) \/ ~Truthy(e.PASSWORD)

\* os.environ.get of a required setting: unset, empty or set.
EnvValues == {None, JStr(""), JStr("set")}

\* ClientContext(URL, ctx_auth): the session of the request's n-th token.
ClientContext(n) == n

\* Variant of the order below: the batch is walked from its end.
EnumerateAt_Reversed(k, n) == n + 1 - k

\* The position enumerate(entities) yields at step k of n.
EnumerateAt(k, n) == k

\* The collection of n items the remote store holds.
Remote(n) == [k \in 1..n |-> [Id |-> k]]

\* get_items().top(n): the store answers with its first n items at most.
Top(items, n) == SubSeq(items, 1, IF n < Len(items) THEN n ELSE Len(items))

\* json.dumps(entity.properties)
Dumps(item) == "{\"Id\": " \o Decimal(item.Id) \o "}"

\* Variant of the test below: the result of the exchange is not looked at.
Authenticated_Always(tok) == TRUE

\* if ctx_auth.acquire_token_for_user(USERNAME, PASSWORD)
Authenticated(tok) == tok = "valid"

\* Variant of the test below: a comma before every element.
Separator_Always(i) == <<",">>

\* if index > 0: yield ","
Separator(i) == IF i > 0 THEN <<",">> ELSE <<>>

Unbound == [bound |-> FALSE, elems |-> <<>>]
Bound(items) == [bound |-> TRUE, elems |-> items]

\* Variant of the lookup below: an explicit abort where the name is unbound.
NameLookup_Abort(local) == IF local.bound THEN "none" ELSE "abort(500)"

\* Evaluating the name of a local: the exception it raises ("none": none).
NameLookup(local) == IF local.bound THEN "none" ELSE "UnboundLocalError"

\* Response(generate(...)): the status line goes out, the body is streamed.
Streaming == [status |-> 200, body |-> "<generator>"]

ListNames == {"Tasks"}

Init ==
    /\ PROCESS_DELETED \in BOOLEAN
    /\ LIST_SIZE \in 1..MaxListSize
    /\ env \in [URL : EnvValues, USERNAME : EnvValues, PASSWORD : EnvValues]
    /\ proc = "starting"
    /\ pc = "idle"
    /\ entities = <<>>
    /\ idx = 0
    /\ token = "unset"
    /\ existing_item = FALSE
    /\ calls = <<>>
    /\ error = "none"
    /\ response = NoResponse
    /\ route = "none"
    /\ req_list_name = ""
    /\ remote = <<>>
    /\ ctx = 0
    /\ auths = 0
    /\ collection = Unbound
    /\ index = 0
    /\ stream = <<>>

\* The module is loaded and, with the required settings, the server started.
Startup ==
    /\ proc = "starting"
    /\ proc' = IF ConfigMissing(env) THEN "exited" ELSE "listening"
    /\ UNCHANGED <<PROCESS_DELETED, env, LIST_SIZE, pc, entities, idx, token,
                   existing_item, calls, error, response, route, ctx, auths>>
    /\ UNCHANGED reader

\* A request is taken from idle: the locals of the handler are fresh.
Accept(name) ==
    /\ proc = "listening"
    /\ pc = "idle"
    /\ route' = name
    /\ idx' = 0
    /\ token' = "unset"
    /\ existing_item' = FALSE
    /\ calls' = <<>>
    /\ error' = "none"
    /\ response' = NoResponse
    /\ ctx' = 0
    /\ auths' = 0
    /\ collection' = Unbound
    /\ index' = 0
    /\ stream' = <<>>
    /\ UNCHANGED config

\* POST /send-to-list arrives: request.get_json(), then post_entities starts.
SendToList ==
    /\ Accept("send-to-list")
    /\ pc' = "auth"
    /\ \E request_entities \in Batches : entities' = request_entities
    /\ UNCHANGED <<req_list_name, remote>>

\* acquire_token_for_user returns; without a token the request ends.
AcquireToken(tok) ==
    /\ pc = "auth"
    /\ token' = tok
    /\ auths' = auths + 1
    /\ IF HasToken(tok)
       THEN /\ ctx' = ClientContext(auths')
            /\ pc' = "loop"
            /\ idx' = 1
            /\ UNCHANGED <<error, response>>
       ELSE /\ Raise("AuthError")
            /\ UNCHANGED <<idx, ctx>>
    /\ UNCHANGED <<entities, existing_item, calls, route>>
    /\ UNCHANGED <<config, reader>>

\* One pass of the for loop, from its head to the first remote call of the
\* entity (or to the end of the loop).
Iterate ==
    /\ pc = "loop"
    /\ IF idx > Len(entities)
       THEN /\ pc' = "done"
            /\ response' = Success
            /\ UNCHANGED <<idx, existing_item, calls, error>>
       ELSE LET at == EnumerateAt(idx, Len(entities))
                entity == entities[at]
            IN
            IF LoopKeyError(entity, PROCESS_DELETED)
            THEN /\ Raise("KeyError")
                 /\ UNCHANGED <<idx, existing_item, calls>>
            ELSE IF SkipDeleted(entity, PROCESS_DELETED)
            THEN /\ idx' = idx + 1
                 /\ UNCHANGED <<pc, existing_item, calls, error, response>>
            ELSE IF ProjectionError(entity)
            THEN /\ Raise("Exception")
                 /\ UNCHANGED <<idx, existing_item, calls>>
            ELSE /\ existing_item' = FALSE
                 /\ IF HasID(entity)
                    THEN /\ calls' = Append(calls, get_item_by_id(at, entity))
                         /\ pc' = "probe"
                    ELSE /\ calls' = Append(calls, Reconcile(at, entity, FALSE))
                         /\ pc' = "mutate"
                 /\ UNCHANGED <<idx, error, response>>
    /\ UNCHANGED <<entities, token, route, ctx, auths>>
    /\ UNCHANGED <<config, reader>>

\* The lookup by ID returns or raises.
ProbeReturn(outcome) ==
    /\ pc = "probe"
    /\ IF outcome = "exists" \/ LookupMeansAbsent(outcome)
       THEN /\ existing_item' = (outcome = "exists")
            /\ LET at == EnumerateAt(idx, Len(entities))
               IN  calls' = Append(Returned(outcome),
                                   Reconcile(at, entities[at], existing_item'))
            /\ pc' = "mutate"
            /\ UNCHANGED <<error, response>>
       ELSE /\ calls' = Returned(outcome)
            /\ Raise("Exception")
            /\ UNCHANGED existing_item
    /\ UNCHANGED <<entities, idx, token, route, ctx, auths>>
    /\ UNCHANGED <<config, reader>>

\* The create, update or delete call returns or raises.
MutateReturn(outcome) ==
    /\ pc = "mutate"
    /\ calls' = Returned(outcome)
    /\ IF RaisesForStatus(outcome)
       THEN Raise("Exception") /\ UNCHANGED idx
       ELSE /\ pc' = "loop"
            /\ idx' = idx + 1
            /\ UNCHANGED <<error, response>>
    /\ UNCHANGED <<entities, token, existing_item, route, ctx, auths>>
    /\ UNCHANGED <<config, reader>>

\* GET /get-from-list/<list_name> arrives.
GetFromList ==
    /\ Accept("get-from-list")
    /\ pc' = "list_auth"
    /\ \E name \in ListNames : req_list_name' = name
    /\ \E n \in 0..MaxItems : remote' = Remote(n)
    /\ UNCHANGED entities

\* get_from_list after acquire_token_for_user: the items are asked for, or
\* abort(500).
ListAcquireToken(tok) ==
    /\ pc = "list_auth"
    /\ token' = tok
    /\ auths' = auths + 1
    /\ IF Authenticated(tok)
       THEN /\ ctx' = ClientContext(auths')
            /\ calls' = Append(calls,
                  [Call("get_items", 0, req_list_name, None, <<>>)
                      EXCEPT !.session = ctx'])
            /\ pc' = "fetch"
            /\ UNCHANGED <<error, response>>
       ELSE /\ Raise("abort(500)")
            /\ UNCHANGED <<ctx, calls>>
    /\ UNCHANGED <<entities, idx, existing_item, route>>
    /\ UNCHANGED <<config, reader>>

\* GET /get-site-users arrives.
GetSiteUsers ==
    /\ Accept("get-site-users")
    /\ pc' = "users_auth"
    /\ \E n \in 0..MaxItems : remote' = Remote(n)
    /\ UNCHANGED <<entities, req_list_name>>

\* get_site_users after acquire_token_for_user: the users are asked for, or
\* the if is left with user_col unbound and generate(user_col) raises.
UsersAcquireToken(tok) ==
    /\ pc = "users_auth"
    /\ token' = tok
    /\ auths' = auths + 1
    /\ IF Authenticated(tok)
       THEN /\ ctx' = ClientContext(auths')
            /\ calls' = Append(calls,
                  [Call("site_users", 0, "", None, <<>>)
                      EXCEPT !.session = ctx'])
            /\ pc' = "fetch"
            /\ UNCHANGED <<error, response>>
       ELSE /\ Raise(NameLookup(collection))
            /\ UNCHANGED <<ctx, calls>>
    /\ UNCHANGED <<entities, idx, existing_item, route>>
    /\ UNCHANGED <<config, reader>>

\* execute_query of a reader returns the collection, or raises; with the
\* collection the streaming response is returned.
FetchReturn(outcome) ==
    /\ pc = "fetch"
    /\ calls' = Returned(outcome)
    /\ IF RaisesForStatus(outcome)
       THEN /\ Raise("Exception")
            /\ UNCHANGED collection
       ELSE /\ collection' = Bound(IF route = "get-from-list"
                                   THEN Top(remote, LIST_SIZE) ELSE remote)
            /\ response' = Streaming
            /\ pc' = "stream"
            /\ UNCHANGED error
    /\ UNCHANGED <<entities, idx, token, existing_item, route, ctx, auths>>
    /\ UNCHANGED <<config, req_list_name, remote, index, stream>>

\* The generator runs to its next yield of an element, or to its end.
Generate ==
    /\ pc = "stream"
    /\ IF stream = <<>>
       THEN /\ stream' = <<"[">>
            /\ UNCHANGED <<index, pc>>
       ELSE IF index < Len(collection.elems)
       THEN /\ stream' = stream \o Separator(index)
                         \o <<Dumps(collection.elems[index + 1])>>
            /\ index' = index + 1
            /\ UNCHANGED pc
       ELSE /\ stream' = Append(stream, "]")
            /\ pc' = "done"
            /\ UNCHANGED index
    /\ UNCHANGED <<entities, idx, token, existing_item, calls, error, response,
                   route, ctx, auths>>
    /\ UNCHANGED <<config, req_list_name, remote, collection>>

\* The response has been written: the worker is free for the next request
\* and nothing of the finished request is kept.
Respond ==
    /\ pc = "done"
    /\ pc' = "idle"
    /\ entities' = <<>>
    /\ idx' = 0
    /\ token' = "unset"
    /\ existing_item' = FALSE
    /\ calls' = <<>>
    /\ error' = "none"
    /\ response' = NoResponse
    /\ route' = "none"
    /\ req_list_name' = ""
    /\ remote' = <<>>
    /\ ctx' = 0
    /\ auths' = 0
    /\ collection' = Unbound
    /\ index' = 0
    /\ stream' = <<>>
    /\ UNCHANGED config

Next ==
    \/ Startup
    \/ SendToList
    \/ \E tok \in {"valid", "absent"} : AcquireToken(tok)
    \/ Iterate
    \/ \E outcome \in ProbeOutcomes : ProbeReturn(outcome)
    \/ \E outcome \in CallOutcomes : MutateReturn(outcome)
    \/ GetFromList
    \/ \E tok \in {"valid", "absent"} : ListAcquireToken(tok)
    \/ GetSiteUsers
    \/ \E tok \in {"valid", "absent"} : UsersAcquireToken(tok)
    \/ \E outcome \in CallOutcomes : FetchReturn(outcome)
    \/ Generate
    \/ Respond

Spec == Init /\ [][Next]_vars

----------------------------------------------------------------------------
(* Vocabulary of the properties.                                           *)

Positions == 1..Len(entities)

\* The calls issued for the entity at position i, in order of issue.
CallsFor(i) == SelectSeq(calls, LAMBDA c : c.ent = i)

Kinds(i) == [k \in 1..Len(CallsFor(i)) |-> CallsFor(i)[k].kind]

Mutations(i) ==
    SelectSeq(CallsFor(i), LAMBDA c : c.kind \in {"create", "update", "delete"})

\* The entity is one the deployment is told to leave alone.
SoftDeletedSkip(i) ==
    /\ ~PROCESS_DELETED
    /\ "_deleted" \in DOMAIN entities[i]
    /\ entities[i]["_deleted"] = JBool(TRUE)

\* The pass of the loop over position i has issued its create, update or
\* delete call, or ended without an exception.
Passed(i) == i < idx \/ (i = idx /\ pc = "mutate")

\* The fields of the entity that Keys lists, each in its string form.
Projected(entity) ==
    [key \in {entity["Keys"].l[k] : k \in 1..Len(entity["Keys"].l)} |->
        Str(entity[key])]

Decorated(entity) ==
    IF LIST_ITEM_NAME \in DOMAIN entity
    THEN Projected(entity) @@ ("__metadata" :> TypeDict(entity[LIST_ITEM_NAME].s))
    ELSE Projected(entity)

\* The answer of the store to the lookup of position i ("none": no lookup).
ProbeResult(i) ==
    IF CallsFor(i) # <<>> /\ CallsFor(i)[1].kind = "probe"
    THEN CallsFor(i)[1].result ELSE "none"

----------------------------------------------------------------------------
\* C1: an entity without ID gets a create call and never a lookup, update or
\* delete call, whatever its SHOULD_DELETE: every call issued for it is a
\* create, and once its pass reaches the decision (it is not skipped and its
\* projection is built) exactly one create call has been issued for it.
C1_NoIdCreates ==
    \A i \in Positions :
        "ID" \notin DOMAIN entities[i] =>
            /\ \A k \in 1..Len(CallsFor(i)) : CallsFor(i)[k].kind = "create"
            /\ Len(CallsFor(i)) <= 1
            /\ (Passed(i) /\ ~SoftDeletedSkip(i)) => Kinds(i) = <<"create">>

C1_Witness ==
    \E i \in Positions :
        /\ "ID" \notin DOMAIN entities[i]
        /\ Get(entities[i], "SHOULD_DELETE") = JBool(TRUE)
        /\ i < idx
        /\ Kinds(i) = <<"create">>
        /\ CallsFor(i)[1].result = "ok"

\* C2: an entity with ID whose lookup is answered "item does not exist" gets
\* the calls of the same entity without ID: one create call to its list
\* with the projected, metadata-decorated properties, no update or delete.
C2_NotFoundCreates ==
    \A i \in Positions :
        ProbeResult(i) = "not_found" =>
            /\ Kinds(i) = <<"probe", "create">>
            /\ CallsFor(i)[2].list = entities[i][LIST_NAME].s
            /\ CallsFor(i)[2].props = Decorated(entities[i])
            /\ LET without_id == [f \in DOMAIN entities[i] \ {"ID"} |->
                                     entities[i][f]]
               IN  [CallsFor(i)[2] EXCEPT !.result = "pending"]
                       = Reconcile(i, without_id, FALSE)

C2_Witness ==
    \E i \in Positions :
        /\ ProbeResult(i) = "not_found"
        /\ entities[i]["ID"] = JInt(7)
        /\ Get(entities[i], "SHOULD_DELETE") = JBool(TRUE)
        /\ Kinds(i) = <<"probe", "create">>
        /\ CallsFor(i)[2].result = "ok"
        /\ CallsFor(i)[2].props =
              ("Count" :> JStr("3")) @@ ("Title" :> JStr("A"))
              @@ ("__metadata" :> TypeDict("SP.Data.TasksListItem"))

\* C3: an entity with ID that the lookup finds and whose SHOULD_DELETE is
\* true or "true" gets exactly one delete call, against that ID in its
\* list, and no update or create call.
C3_ExistingDeleted ==
    \A i \in Positions :
        /\ ProbeResult(i) = "exists"
        /\ Get(entities[i], "SHOULD_DELETE") \in {JBool(TRUE), JStr("true")}
        => /\ Kinds(i) = <<"probe", "delete">>
           /\ CallsFor(i)[2].id = entities[i]["ID"]
           /\ CallsFor(i)[2].list = entities[i][LIST_NAME].s

C3_Witness ==
    \E i \in Positions :
        /\ ProbeResult(i) = "exists"
        /\ Get(entities[i], "SHOULD_DELETE") = JStr("true")
        /\ Kinds(i) = <<"probe", "delete">>
        /\ CallsFor(i)[2].id = JInt(7)
        /\ CallsFor(i)[2].result = "ok"

\* C4: an entity with ID that the lookup finds and whose SHOULD_DELETE is
\* false or absent gets one update call against that ID whose properties
\* are exactly its fields listed in Keys, each as a string, and no delete
\* or create call.
C4_ExistingUpdated ==
    \A i \in Positions :
        /\ ProbeResult(i) = "exists"
        /\ Get(entities[i], "SHOULD_DELETE") \in {None, JBool(FALSE)}
        => /\ Kinds(i) = <<"probe", "update">>
           /\ CallsFor(i)[2].id = entities[i]["ID"]
           /\ CallsFor(i)[2].list = entities[i][LIST_NAME].s
           /\ CallsFor(i)[2].props = Projected(entities[i])

C4_Witness ==
    \E i \in Positions :
        /\ ProbeResult(i) = "exists"
        /\ Get(entities[i], "SHOULD_DELETE") = JBool(FALSE)
        /\ entities[i]["Count"] = JInt(3)
        /\ Kinds(i) = <<"probe", "update">>
        /\ CallsFor(i)[2].result = "ok"
        /\ CallsFor(i)[2].props =
              ("Count" :> JStr("3")) @@ ("Title" :> JStr("A"))

\* C5: the properties of a create or update call hold no field of the
\* entity that Keys does not list; the type metadata is in the properties
\* only of create calls, and there only when the entity has
\* ListItemEntityTypeFullName.
C5_OnlyKeysAndMetadataOnCreate ==
    \A k \in 1..Len(calls) :
        LET c == calls[k]
            entity == entities[c.ent]
        IN  c.kind \in {"create", "update"} =>
              /\ DOMAIN c.props \ {"__metadata"} \subseteq Range(entity["Keys"].l)
              /\ "__metadata" \in DOMAIN c.props =>
                    /\ c.kind = "create"
                    /\ LIST_ITEM_NAME \in DOMAIN entity

C5_Witness ==
    \E k \in 1..Len(calls) :
        /\ calls[k].kind = "update"
        /\ LIST_ITEM_NAME \in DOMAIN entities[calls[k].ent]
        /\ "Count" \in DOMAIN entities[calls[k].ent]
        /\ DOMAIN calls[k].props = {"Title"}
        /\ \E j \in 1..Len(calls) :
              /\ calls[j].kind = "create"
              /\ DOMAIN calls[j].props = {"Title", "__metadata"}

\* C6: with PROCESS_DELETED false, an entity whose _deleted is true causes
\* no remote call and no error, and the loop goes on to the next entity.
C6_SoftDeletedSkipped ==
    \A i \in Positions :
        SoftDeletedSkip(i) =>
            /\ CallsFor(i) = <<>>
            /\ ~(idx = i /\ pc = "done" /\ error # "none")

\* C7: a batch of one entity with ListName, Keys and the listed fields but
\* without ID and without _deleted ends in exactly one create call to the
\* named list with the projected properties, and the request succeeds when
\* that call does.
C7_DeletedIsOptional ==
    /\ pc = "done"
    /\ token = "valid"
    /\ Len(entities) = 1
    /\ DOMAIN entities[1] \cap {"ID", "_deleted"} = {}
    /\ {LIST_NAME, "Keys"} \subseteq DOMAIN entities[1]
    /\ Range(entities[1]["Keys"].l) \subseteq DOMAIN entities[1]
    => /\ Kinds(1) = <<"create">>
       /\ calls[1].list = entities[1][LIST_NAME].s
       /\ calls[1].props = Decorated(entities[1])
       /\ calls[1].result = "ok" => response = Success

\* A call the remote store refused, or a lookup that failed for another
\* reason than the item's absence.
HardFailure(c) == c.result \in {"fail", "error"}

\* C8: the first entity whose reconciliation raises a hard error ends the
\* batch: the failed call is the last call of the request and no call is
\* issued for a later entity; the calls made for the entities before it
\* stay as they were answered (nothing is issued to undo them).
C8_FirstHardErrorEndsBatch ==
    /\ \A k \in 1..Len(calls) :
          HardFailure(calls[k]) => k = Len(calls) /\ pc = "done" /\ error # "none"
    /\ error # "none" =>
          /\ pc = "done"
          /\ \A k \in 1..Len(calls) : calls[k].ent <= idx
          /\ \A i \in 1..(idx - 1) :
                \/ CallsFor(i) = <<>> /\ SoftDeletedSkip(i)
                \/ /\ Len(Mutations(i)) = 1
                   /\ Mutations(i)[1].result = "ok"
                   /\ Mutations(i)[1] = CallsFor(i)[Len(CallsFor(i))]

C8_Witness ==
    /\ error # "none"
    /\ Len(entities) = 2
    /\ idx = 1
    /\ Kinds(1) = <<"probe", "update">>
    /\ HardFailure(calls[2])
    /\ CallsFor(2) = <<>>

\* Position i was skipped as soft-deleted, or its create, update or delete
\* call was answered with success.
SkippedOrReconciled(i) ==
    \/ SoftDeletedSkip(i) /\ CallsFor(i) = <<>> /\ i < idx
    \/ Mutations(i) # <<>> /\ Mutations(i)[Len(Mutations(i))].result = "ok"

C10_NoTokenNoCalls ==
    route = "send-to-list" /\ token = "absent" =>
        /\ pc = "done"
        /\ calls = <<>>
        /\ error = "AuthError"
        /\ response = InternalServerError

C10_Witness ==
    /\ route = "send-to-list"
    /\ token = "absent"
    /\ pc = "done"
    /\ Len(entities) = 2
    /\ "ID" \in DOMAIN entities[1]

----------------------------------------------------------------------------
\* C11: send-to-list returns the processed entities, each with its status
\* attribute set to the result of its operation.
C11_StatusPopulated ==
    /\ route = "send-to-list"
    /\ pc = "done"
    /\ response.status = 200
    /\ Positions # {}
    /\ \A i \in Positions : Mutations(i) # <<>>
    => /\ response.body # "{'status': 'success'}"
       /\ \A i \in Positions : "status" \in DOMAIN entities[i]

Min(a, b) == IF a < b THEN a ELSE b

\* The chunks of a JSON array of the first m items of the remote collection.
ArrayChunks(m) ==
    [k \in 1..(IF m = 0 THEN 2 ELSE 2 * m + 1) |->
        IF k = 1 THEN "["
        ELSE IF k = (IF m = 0 THEN 2 ELSE 2 * m + 1) THEN "]"
        ELSE IF k % 2 = 0 THEN Dumps(remote[k \div 2])
        ELSE ","]

\* C12: with page-size cap c over a remote collection of n items,
\* get-from-list emits "[", the first min(c, n) items in remote order
\* separated by single commas, and "]"; while it streams, what it has
\* emitted is a prefix of that.
C12_ArrayOfFirstItems ==
    route = "get-from-list" /\ response = Streaming =>
        LET expected == ArrayChunks(Min(LIST_SIZE, Len(remote)))
        IN  /\ Len(stream) <= Len(expected)
            /\ \A k \in 1..Len(stream) : stream[k] = expected[k]
            /\ pc = "done" => stream = expected
            /\ Len(collection.elems) = Min(LIST_SIZE, Len(remote))

C12_Witness ==
    /\ route = "get-from-list"
    /\ pc = "done"
    /\ LIST_SIZE = 2
    /\ Len(remote) = 3
    /\ stream = <<"[", "{\"Id\": 1}", ",", "{\"Id\": 2}", "]">>

\* C13 as stated: get-from-list answers 500 and fetches nothing when
\* authentication fails, and answers 200 with the streamed array when
\* authentication succeeds.
C13_AuthDecidesStatus ==
    route = "get-from-list" /\ pc = "done" =>
        /\ token = "absent" => response.status = 500 /\ calls = <<>>
        /\ token = "valid" => response = Streaming

\* C13, amended: get-from-list answers 500 and fetches nothing when
\* authentication fails; when authentication succeeds it issues one fetch
\* of the named list and answers 200 with the streamed array if the fetch
\* succeeds, 500 if the fetch raises.
C13_AuthAndFetchDecideStatus ==
    route = "get-from-list" =>
        /\ token = "absent" =>
              /\ calls = <<>>
              /\ pc = "done"
              /\ response = InternalServerError
              /\ stream = <<>>
        /\ token = "valid" =>
              /\ Len(calls) = 1
              /\ calls[1].kind = "get_items"
              /\ calls[1].list = req_list_name
              /\ calls[1].result = "ok" => response = Streaming
              /\ calls[1].result = "fail" =>
                    /\ pc = "done"
                    /\ response = InternalServerError
                    /\ stream = <<>>
        /\ response.status = 200 => token = "valid" /\ calls[1].result = "ok"

C13_Witness ==
    /\ route = "get-from-list"
    /\ token = "absent"
    /\ pc = "done"
    /\ response.status = 500
    /\ Len(remote) = 2

\* A required setting is absent: unset, or set to the empty string.
SettingAbsent(v) == v = None \/ v = JStr("")

\* C14: if the URL, the username or the password is absent at startup the
\* process exits and never listens, so that no route is ever served; with
\* all three present the process does not exit and goes on to listen.
C14_ListensOnlyWhenConfigured ==
    LET absent == \E k \in {"URL", "USERNAME", "PASSWORD"} : SettingAbsent(env[k])
    IN  /\ absent =>
              /\ proc \in {"starting", "exited"}
              /\ pc = "idle"
              /\ route = "none"
              /\ calls = <<>>
        /\ ~absent => proc \in {"starting", "listening"}

C14_Witness ==
    /\ proc = "exited"
    /\ env.URL = JStr("set")
    /\ env.USERNAME = JStr("set")
    /\ env.PASSWORD = None

\* C15 as stated: a lookup that fails with anything but the store's
\* "item does not exist", an argument error and a network error in
\* particular, ends the entity in a hard error with no create, update or
\* delete call.
C15_OtherLookupFailuresAreHard ==
    \A i \in Positions :
        ProbeResult(i) \in {"argument_exception", "error"} =>
            /\ Mutations(i) = <<>>
            /\ pc = "done"
            /\ error # "none"

\* C15, amended: a lookup that fails with anything but the store's "item
\* does not exist" message or an error of code System.ArgumentException
\* (a network error in particular) ends the entity in a hard error with no
\* create, update or delete call; an argument error is taken as "no
\* existing item" and followed by one create call.
C15_LookupFailures ==
    \A i \in Positions :
        /\ ProbeResult(i) = "error" =>
              /\ Kinds(i) = <<"probe">>
              /\ pc = "done"
              /\ idx = i
              /\ error = "Exception"
              /\ response = InternalServerError
        /\ ProbeResult(i) = "argument_exception" =>
              Kinds(i) = <<"probe", "create">>

C15_Witness ==
    \E i \in Positions :
        /\ ProbeResult(i) = "error"
        /\ i = 2
        /\ Kinds(1) = <<"probe", "create">>
        /\ ProbeResult(1) = "argument_exception"
        /\ pc = "done"

\* C16: within one request the entities are processed one after the other
\* in submission order: the calls of the log are ordered by the position of
\* their entity, and a call is issued only when every call before it has
\* been answered.
C16_SequentialInOrder ==
    \A j, k \in 1..Len(calls) :
        j < k =>
            /\ calls[j].ent <= calls[k].ent
            /\ calls[j].result # "pending"

C16_Witness ==
    /\ Len(entities) = 2
    /\ Kinds(1) = <<"probe", "update">>
    /\ Kinds(2) = <<"probe", "delete">>
    /\ Len(calls) = 4
    /\ calls[4].result = "ok"

\* C17: a send-to-list request authenticates exactly once, before the first
\* entity is examined and whatever the length of the batch; every remote
\* call of the request is made with the context built from that one token;
\* a request starts without a context, so none is carried over from the
\* request before.
C17_OneSessionPerRequest ==
    /\ pc \in {"idle", "auth"} => ctx = 0 /\ auths = 0
    /\ route = "send-to-list" =>
          /\ auths <= 1
          /\ auths = 0 => idx = 0 /\ calls = <<>>
          /\ pc \notin {"idle", "auth"} => auths = 1
          /\ \A k \in 1..Len(calls) :
                calls[k].session = ctx /\ ctx = 1 /\ token = "valid"

C17_Witness ==
    /\ route = "send-to-list"
    /\ pc = "done"
    /\ Len(entities) = 2
    /\ Len(calls) = 3
    /\ auths = 1
    /\ \A k \in 1..3 : calls[k].session = 1

\* C18: when authentication fails in get-site-users the handler fetches
\* nothing and ends in the unbound-local error of user_col: no array is
\* streamed and no abort is made.
C18_SiteUsersUnboundOnAuthFailure ==
    route = "get-site-users" /\ token = "absent" =>
        /\ calls = <<>>
        /\ ~collection.bound
        /\ pc = "done"
        /\ error = "UnboundLocalError"
        /\ stream = <<>>
        /\ response = InternalServerError

C18_Witness ==
    /\ route = "get-site-users"
    /\ token = "absent"
    /\ pc = "done"
    /\ error = "UnboundLocalError"
    /\ Len(remote) = 2

Probes(i) == SelectSeq(CallsFor(i), LAMBDA c : c.kind = "probe")

\* C19: an entity gets at most one create, update or delete call; an update
\* or delete call comes only after a lookup of the same entity and ID in
\* the same request that found the item; a lookup is issued only for an
\* entity that has an ID, and at most once per entity.
C19_OneMutationAfterLookup ==
    /\ \A i \in Positions :
          /\ Len(Mutations(i)) <= 1
          /\ Len(Probes(i)) <= 1
          /\ Probes(i) # <<>> => "ID" \in DOMAIN entities[i]
    /\ \A k \in 1..Len(calls) :
          calls[k].kind \in {"update", "delete"} =>
              \E j \in 1..(k - 1) :
                  /\ calls[j].kind = "probe"
                  /\ calls[j].ent = calls[k].ent
                  /\ calls[j].id = calls[k].id
                  /\ calls[j].result = "exists"

C19_Witness ==
    /\ Len(entities) = 2
    /\ Kinds(1) = <<"create">>
    /\ "ID" \notin DOMAIN entities[1]
    /\ Get(entities[1], "SHOULD_DELETE") = JBool(TRUE)
    /\ Kinds(2) = <<"probe", "delete">>
    /\ pc = "done"
    /\ response = Success

\* The projection of the entity cannot be built.
Malformed(entity) ==
    \/ LIST_NAME \notin DOMAIN entity
    \/ "Keys" \notin DOMAIN entity
    \/ \E k \in 1..Len(entity["Keys"].l) : entity["Keys"].l[k] \notin DOMAIN entity

\* The loop leaves the entity out at its head.
LeftOut(i) ==
    /\ ~PROCESS_DELETED
    /\ {"_deleted", "_id"} \subseteq DOMAIN entities[i]
    /\ Truthy(entities[i]["_deleted"])

\* C20 as stated: for an entity without ListName or Keys, or whose Keys
\* names a field it does not have, no remote call is issued and the batch
\* ends in a hard error.
C20_MalformedEndsBatch ==
    \A i \in Positions :
        Malformed(entities[i]) =>
            /\ CallsFor(i) = <<>>
            /\ idx <= i
            /\ pc = "done" => error # "none"

\* C20, amended: for such an entity, unless the loop leaves it out as
\* soft-deleted, no remote call is issued (the projection is built before
\* the lookup) and the batch ends in a hard error.
C20_MalformedEndsBatchUnlessLeftOut ==
    \A i \in Positions :
        Malformed(entities[i]) /\ ~LeftOut(i) =>
            /\ CallsFor(i) = <<>>
            /\ idx <= i
            /\ pc = "done" => error # "none" /\ response = InternalServerError

C20_Witness ==
    /\ Len(entities) = 2
    /\ Kinds(1) = <<"create">>
    /\ pc = "done"
    /\ idx = 2
    /\ error = "Exception"
    /\ "ID" \in DOMAIN entities[2]
    /\ "Count" \notin DOMAIN entities[2]
    /\ "Keys" \in DOMAIN entities[2]
    /\ CallsFor(2) = <<>>

====
